---- MODULE Spec2Model ----
(***************************************************************************)
(* Escape-time renderer of the Mandelbrot and Julia sets (src/src/lib.rs). *)
(*                                                                         *)
(* The program computes in f64.  An f64 is modelled bit-exactly: a sign,   *)
(* an odd integer significand of at most 53 bits and a binary exponent,    *)
(* with every operation rounded to nearest, ties to even (the IEEE 754     *)
(* default, which is what Rust's +, -, * and / on f64 do), plus NaN and    *)
(* the infinities.  TLC's integers are 32 bits wide, so a significand is a *)
(* little-endian sequence of 15-bit limbs.  The one departure from IEEE    *)
(* 754 is that -0 is written +0: the program never divides by a computed   *)
(* zero of either sign and never inspects a sign bit, so the two are       *)
(* indistinguishable to it.                                                *)
(***************************************************************************)
EXTENDS Integers, Sequences, FiniteSets, TLC

(***************************************************************************)
(* Natural numbers of arbitrary size: little-endian limbs, no leading zero *)
(* limb, the empty sequence for 0.                                         *)
(***************************************************************************)
Base == 2^15

Max(a, b) == IF a >= b THEN a ELSE b
Min(a, b) == IF a <= b THEN a ELSE b

RECURSIVE BnNorm(_)
BnNorm(a) ==
  IF a = <<>> THEN <<>>
  ELSE IF a[Len(a)] = 0 THEN BnNorm(SubSeq(a, 1, Len(a) - 1)) ELSE a

BnFromNat(n) ==
  BnNorm(<<n % Base, (n \div Base) % Base, n \div (Base * Base)>>)

RECURSIVE BnAddC(_, _, _)
BnAddC(a, b, c) ==
  IF a = <<>> /\ b = <<>> THEN (IF c = 0 THEN <<>> ELSE <<c>>)
  ELSE LET x == IF a = <<>> THEN 0 ELSE Head(a)
           y == IF b = <<>> THEN 0 ELSE Head(b)
           s == x + y + c
       IN  <<s % Base>> \o BnAddC(IF a = <<>> THEN a ELSE Tail(a),
                                  IF b = <<>> THEN b ELSE Tail(b), s \div Base)

BnAdd(a, b) == BnAddC(a, b, 0)

RECURSIVE BnSubC(_, _, _)
BnSubC(a, b, c) ==
  IF a = <<>> THEN <<>>
  ELSE LET y == IF b = <<>> THEN 0 ELSE Head(b)
           d == Head(a) - y - c
       IN  <<d % Base>> \o BnSubC(Tail(a), IF b = <<>> THEN b ELSE Tail(b),
                                  IF d < 0 THEN 1 ELSE 0)

BnSub(a, b) == BnNorm(BnSubC(a, b, 0))

RECURSIVE BnCmpAt(_, _, _)
BnCmpAt(a, b, i) ==
  IF i = 0 THEN 0
  ELSE IF a[i] < b[i] THEN -1
  ELSE IF a[i] > b[i] THEN 1
  ELSE BnCmpAt(a, b, i - 1)

BnCmp(a, b) ==
  IF Len(a) < Len(b) THEN -1
  ELSE IF Len(a) > Len(b) THEN 1
  ELSE BnCmpAt(a, b, Len(a))

RECURSIVE BnMulLimb(_, _, _)
BnMulLimb(a, d, c) ==
  IF a = <<>> THEN (IF c = 0 THEN <<>> ELSE <<c>>)
  ELSE LET p == Head(a) * d + c
       IN  <<p % Base>> \o BnMulLimb(Tail(a), d, p \div Base)

RECURSIVE BnMul(_, _)
BnMul(a, b) ==
  IF a = <<>> \/ b = <<>> THEN <<>>
  ELSE BnAdd(BnMulLimb(a, Head(b), 0), BnNorm(<<0>> \o BnMul(a, Tail(b))))

BnShl(a, k) ==
  IF a = <<>> THEN <<>>
  ELSE [i \in 1..(k \div 15) |-> 0] \o BnMulLimb(a, 2^(k % 15), 0)

RECURSIVE BnDivLimbAt(_, _, _, _)
BnDivLimbAt(a, d, i, r) ==
  IF i = 0 THEN <<>>
  ELSE LET v == r * Base + a[i]
       IN  BnDivLimbAt(a, d, i - 1, v % d) \o <<v \div d>>

BnShr(a, k) ==
  LET w == k \div 15
  IN  IF w >= Len(a) THEN <<>>
      ELSE LET t == SubSeq(a, w + 1, Len(a))
           IN  BnNorm(BnDivLimbAt(t, 2^(k % 15), Len(t), 0))

RECURSIVE NatBitLen(_)
NatBitLen(n) == IF n = 0 THEN 0 ELSE 1 + NatBitLen(n \div 2)

BnBitLen(a) == IF a = <<>> THEN 0 ELSE 15 * (Len(a) - 1) + NatBitLen(a[Len(a)])

BnBit(a, i) ==
  IF i \div 15 >= Len(a) THEN 0 ELSE (a[(i \div 15) + 1] \div 2^(i % 15)) % 2

RECURSIVE NatTz(_)
NatTz(n) == IF n % 2 = 1 THEN 0 ELSE 1 + NatTz(n \div 2)

RECURSIVE BnTz(_)
BnTz(a) == IF Head(a) = 0 THEN 15 + BnTz(Tail(a)) ELSE NatTz(Head(a))

\* quotient and remainder of a by b (b # 0), schoolbook binary long division
\* the largest d in lo..hi with d * b <= r (lo * b <= r is given)
RECURSIVE BnQuotDigit(_, _, _, _)
BnQuotDigit(r, b, lo, hi) ==
  IF lo = hi THEN lo
  ELSE LET mid == (lo + hi + 1) \div 2
       IN  IF BnCmp(BnNorm(BnMulLimb(b, mid, 0)), r) <= 0
           THEN BnQuotDigit(r, b, mid, hi)
           ELSE BnQuotDigit(r, b, lo, mid - 1)

\* quotient and remainder of the limbs i..Len(a) of a by b (b # 0), long division
RECURSIVE BnDivModFrom(_, _, _)
BnDivModFrom(a, b, i) ==
  IF i > Len(a) THEN [q |-> <<>>, r |-> <<>>]
  ELSE LET p  == BnDivModFrom(a, b, i + 1)
           r2 == BnNorm(<<a[i]>> \o p.r)
           d  == BnQuotDigit(r2, b, 0, Base - 1)
       IN  [q |-> BnNorm(<<d>> \o p.q), r |-> BnSub(r2, BnNorm(BnMulLimb(b, d, 0)))]

BnDivMod(a, b) == BnDivModFrom(a, b, 1)

(***************************************************************************)
(* f64: (-1)^s * m * 2^e with m odd (or 0), m < 2^53.                      *)
(***************************************************************************)
Precision == 53
EMinSub == -1074
EMaxExp == 1024

NaN == [k |-> "nan", s |-> 0, m |-> <<>>, e |-> 0]
Inf(s) == [k |-> "inf", s |-> s, m |-> <<>>, e |-> 0]
Zero == [k |-> "num", s |-> 0, m |-> <<>>, e |-> 0]

F64Round(s, M, E) ==
  IF M = <<>> THEN Zero
  ELSE
    LET L == BnBitLen(M)
        drop == Max(0, Max(L - Precision, EMinSub - E))
        q == BnShr(M, drop)
        r == BnSub(M, BnShl(q, drop))
        c == IF drop = 0 THEN -1 ELSE BnCmp(r, BnShl(<<1>>, drop - 1))
        up == c > 0 \/ (c = 0 /\ BnBit(q, 0) = 1)
        M1 == IF up THEN BnAdd(q, <<1>>) ELSE q
        E1 == E + drop
    IN  IF M1 = <<>> THEN Zero
        ELSE IF BnBitLen(M1) + E1 > EMaxExp THEN Inf(s)
        ELSE LET tz == BnTz(M1)
             IN  [k |-> "num", s |-> s, m |-> BnShr(M1, tz), e |-> E1 + tz]

F64FromU32(n) == F64Round(0, BnFromNat(n), 0)
F64Neg(a) == IF a.k = "nan" \/ a = Zero THEN a ELSE [a EXCEPT !.s = 1 - a.s]

IsZero(a) == a.k = "num" /\ a.m = <<>>

\* the position just above the leading bit: |a| lies in [2^(top-1), 2^top)
F64Top(a) == a.e + BnBitLen(a.m)

F64Add(a, b) ==
  IF a.k = "nan" \/ b.k = "nan" THEN NaN
  ELSE IF a.k = "inf" THEN (IF b.k = "inf" /\ b.s # a.s THEN NaN ELSE a)
  ELSE IF b.k = "inf" THEN b
  ELSE IF IsZero(a) THEN b
  ELSE IF IsZero(b) THEN a
  ELSE IF F64Top(a) - F64Top(b) > Precision + 2 THEN a
  ELSE IF F64Top(b) - F64Top(a) > Precision + 2 THEN b
  ELSE
    LET e == Min(a.e, b.e)
        ma == BnShl(a.m, a.e - e)
        mb == BnShl(b.m, b.e - e)
        c == BnCmp(ma, mb)
    IN  IF a.s = b.s THEN F64Round(a.s, BnAdd(ma, mb), e)
        ELSE IF c = 0 THEN Zero
        ELSE IF c > 0 THEN F64Round(a.s, BnSub(ma, mb), e)
        ELSE F64Round(b.s, BnSub(mb, ma), e)

F64Sub(a, b) == F64Add(a, F64Neg(b))

F64Mul(a, b) ==
  IF a.k = "nan" \/ b.k = "nan" THEN NaN
  ELSE IF a.k = "inf" \/ b.k = "inf"
       THEN (IF IsZero(a) \/ IsZero(b) THEN NaN ELSE Inf((a.s + b.s) % 2))
  ELSE IF IsZero(a) \/ IsZero(b) THEN Zero
  ELSE F64Round((a.s + b.s) % 2, BnMul(a.m, b.m), a.e + b.e)

F64Div(a, b) ==
  IF a.k = "nan" \/ b.k = "nan" THEN NaN
  ELSE IF a.k = "inf" THEN (IF b.k = "inf" THEN NaN ELSE Inf((a.s + b.s) % 2))
  ELSE IF b.k = "inf" THEN Zero
  ELSE IF IsZero(b) THEN (IF IsZero(a) THEN NaN ELSE Inf((a.s + b.s) % 2))
  ELSE IF IsZero(a) THEN Zero
  ELSE
    LET sh == Max(0, Precision + 2 + BnBitLen(b.m) - BnBitLen(a.m))
        qr == BnDivMod(BnShl(a.m, sh), b.m)
        M  == BnAddC(BnShl(qr.q, 1), IF qr.r = <<>> THEN <<>> ELSE <<1>>, 0)
    IN  F64Round((a.s + b.s) % 2, M, a.e - b.e - sh - 1)

\* -1, 0, 1 ordering of two non-NaN values
F64Cmp(a, b) ==
  LET sg(v) == IF IsZero(v) THEN 0 ELSE IF v.s = 1 THEN -1 ELSE 1
      mag == IF a.k = "inf" THEN (IF b.k = "inf" THEN 0 ELSE 1)
             ELSE IF b.k = "inf" THEN -1
             ELSE IF F64Top(a) # F64Top(b)
                  THEN (IF F64Top(a) < F64Top(b) THEN -1 ELSE 1)
             ELSE LET e == Min(a.e, b.e)
                  IN  BnCmp(BnShl(a.m, a.e - e), BnShl(b.m, b.e - e))
  IN  IF sg(a) # sg(b) THEN (IF sg(a) < sg(b) THEN -1 ELSE 1)
      ELSE IF sg(a) = 0 THEN 0
      ELSE sg(a) * mag

F64Le(a, b) == a.k # "nan" /\ b.k # "nan" /\ F64Cmp(a, b) <= 0
F64Lt(a, b) == a.k # "nan" /\ b.k # "nan" /\ F64Cmp(a, b) < 0
F64Gt(a, b) == a.k # "nan" /\ b.k # "nan" /\ F64Cmp(a, b) > 0

\* the f64 a decimal literal n/d denotes (the nearest one), negated when s = 1
F64Lit(s, n, d) ==
  LET v == F64Div(F64FromU32(n), F64FromU32(d)) IN IF s = 1 THEN F64Neg(v) ELSE v


(***************************************************************************)
(* Bounds of the model and the inputs drawn within them.                   *)
(***************************************************************************)
MaxDim == 3
MaxIters == 2

Point(x, y) == [x |-> x, y |-> y]
Range(min, max) == [min |-> min, max |-> max]
Dimensions(width, height) == [width |-> width, height |-> height]
AxesRanges(x_range, y_range) == [x_range |-> x_range, y_range |-> y_range]

Origin == Point(Zero, Zero)

\* canvas extents a caller can pass (u32), the degenerate 0 and 1 included
Extents == 0..MaxDim

\* x windows: [-2, 2], [-2, 0.47] and [-1.25, 0.25]
XRanges ==
  { Range(F64Lit(1, 2, 1), F64Lit(0, 2, 1)),
    Range(F64Lit(1, 2, 1), F64Lit(0, 47, 100)),
    Range(F64Lit(1, 125, 100), F64Lit(0, 25, 100)) }

\* y window: [0, 0.5]
YRanges == { Range(Zero, F64Lit(0, 1, 2)) }

\* mouse location on the Mandelbrot set passed to draw_julia: (-1, 0.25)
JuliaSeeds == { Point(F64Lit(1, 1, 1), F64Lit(0, 1, 4)) }

\* A colour map with an entry for every count 0..MaxIters; each entry has a
\* 4th channel and the entries from the second on have a first channel above 255.
PaletteFull == [i \in 1..(MaxIters + 1) |-> <<250 + 3 * i, 20 * i, 255 - i, 128>>]
\* The same colour map cut to two entries.
PaletteShort == SubSeq(PaletteFull, 1, 2)
\* A colour map whose entries have two channels only.
PaletteThin == [i \in 1..(MaxIters + 1) |-> <<i, 2 * i>>]

\* the JsValues passed as c_map: arrays of arrays of numbers, and undefined
JsArray(v) == [t |-> "array", v |-> v]
JsUndefined == [t |-> "undefined", v |-> <<>>]
ColourMaps == { JsArray(PaletteFull), JsArray(PaletteShort), JsArray(PaletteThin), JsUndefined }

(***************************************************************************)
(* The pure functions of the program.                                      *)
(***************************************************************************)
BAILOUT == F64FromU32(4)

sum_of_squares(val1, val2) == F64Add(F64Mul(val1, val1), F64Mul(val2, val2))

diff_of_squares(val1, val2) == F64Sub(F64Mul(val1, val1), F64Mul(val2, val2))

is_in_main_cardioid(loc, temp) ==
  F64Le(F64Mul(temp, F64Sub(F64Add(temp, loc.x), F64Lit(0, 25, 100))),
        F64Div(F64Mul(loc.y, loc.y), F64FromU32(4)))

is_in_period_2_bulb(loc) ==
  F64Le(sum_of_squares(F64Add(loc.x, F64FromU32(1)), loc.y), F64Lit(0, 625, 10000))

mandel_early_bailout(loc) ==
  \/ is_in_main_cardioid(loc, sum_of_squares(F64Sub(loc.x, F64Lit(0, 25, 100)), loc.y))
  \/ is_in_period_2_bulb(loc)

\* escape_continues with the counter compared by <=: one pass too many
escape_continues_inclusive(start_val, iter_count, max_iters) ==
  F64Le(sum_of_squares(start_val.x, start_val.y), BAILOUT) /\ iter_count <= max_iters

\* escape_continues with the magnitude compared by <: a point at the bailout
\* radius counts as escaped
escape_continues_strict(start_val, iter_count, max_iters) ==
  F64Lt(sum_of_squares(start_val.x, start_val.y), BAILOUT) /\ iter_count < max_iters

\* the condition of escape_time_mj's while loop
escape_continues(start_val, iter_count, max_iters) ==
  F64Le(sum_of_squares(start_val.x, start_val.y), BAILOUT) /\ iter_count < max_iters

\* the value of start_val after one pass through the loop's body
escape_next(mandel_point, start_val) ==
  Point(F64Add(mandel_point.x, diff_of_squares(start_val.x, start_val.y)),
        F64Add(mandel_point.y, F64Mul(F64Mul(F64FromU32(2), start_val.x), start_val.y)))

RECURSIVE escape_loop(_, _, _, _)
escape_loop(mandel_point, start_val, iter_count, max_iters) ==
  IF escape_continues(start_val, iter_count, max_iters)
  THEN escape_loop(mandel_point, escape_next(mandel_point, start_val), iter_count + 1, max_iters)
  ELSE iter_count

escape_time_mj(mandel_point, start_val, max_iters) ==
  escape_loop(mandel_point, start_val, 0, max_iters)

\* mandel_iter's fast path returning the count of a point that escapes at once
early_bailout_count_zero(max_iters) == 0

\* what mandel_iter returns when mandel_early_bailout holds
early_bailout_count(max_iters) == max_iters

\* (canvas.width - 1) as f64: u32 subtraction, which wraps to 2^32 - 1 at
\* extent 0 when the build has no overflow checks
U32MaxAsF64 == [k |-> "num", s |-> 0, m |-> <<Base - 1, Base - 1, 3>>, e |-> 0]

\* axis_length without the - 1: the extent itself
axis_length_extent(extent) == F64FromU32(extent)

axis_length(extent) == IF extent = 0 THEN U32MaxAsF64 ELSE F64FromU32(extent - 1)

scale(scale_factor, length, pos) == F64Mul(scale_factor, F64Div(pos, length))

\* range.min + scale_x(i as f64), and the same with scale_y
axis_coord(range, extent, i) ==
  F64Add(range.min, scale(F64Sub(range.max, range.min), axis_length(extent), F64FromU32(i)))

\* JsValue::into_serde::<Vec<Vec<u32>>>
into_serde(js) == IF js.t = "array" THEN [ok |-> TRUE, v |-> js.v] ELSE [ok |-> FALSE, v |-> <<>>]

\* u32 as u8
as_u8(n) == n % 256

\* push_order with the big-endian pushes in the order alpha, red, green, blue
push_order_argb(is_little_endian) ==
  IF is_little_endian THEN <<0, 1, 2, -1>> ELSE <<-1, 0, 1, 2>>

\* The pushes of one pixel in program order: a channel index, or -1 for the
\* hard-coded alpha value.
push_order(is_little_endian) == IF is_little_endian THEN <<0, 1, 2, -1>> ELSE <<-1, 2, 1, 0>>

\* The bytes pushed for this_colour by the pushes ops, up to the first index
\* that is out of this_colour's bounds (where the program panics).
RECURSIVE pushed(_, _)
pushed(this_colour, ops) ==
  IF ops = <<>> THEN [bytes |-> <<>>, ok |-> TRUE]
  ELSE IF Head(ops) = -1
       THEN LET rest == pushed(this_colour, Tail(ops))
            IN  [bytes |-> <<255>> \o rest.bytes, ok |-> rest.ok]
  ELSE IF Head(ops) >= Len(this_colour) THEN [bytes |-> <<>>, ok |-> FALSE]
  ELSE LET rest == pushed(this_colour, Tail(ops))
       IN  [bytes |-> <<as_u8(this_colour[Head(ops) + 1])>> \o rest.bytes, ok |-> rest.ok]

\* loop_next with the loops nested the other way round: ix outer, iy inner
loop_next_column_major(ix, iy, width, height) ==
  IF iy + 1 < height THEN [ix |-> ix, iy |-> iy + 1, done |-> FALSE]
  ELSE IF ix + 1 < width THEN [ix |-> ix + 1, iy |-> 0, done |-> FALSE]
  ELSE [ix |-> ix, iy |-> iy, done |-> TRUE]

\* The loop indices after pixel (ix, iy) of for iy in 0..height { for ix in 0..width }.
loop_next(ix, iy, width, height) ==
  IF ix + 1 < width THEN [ix |-> ix + 1, iy |-> iy, done |-> FALSE]
  ELSE IF iy + 1 < height THEN [ix |-> 0, iy |-> iy + 1, done |-> FALSE]
  ELSE [ix |-> ix, iy |-> iy, done |-> TRUE]

\* ImageData(data, sw, sh): the data is a nonzero multiple of 4 bytes long and
\* holds sh rows of sw pixels.
image_data_ok(data, sw, sh) ==
  /\ Len(data) # 0
  /\ Len(data) % 4 = 0
  /\ sw # 0
  /\ (Len(data) \div 4) % sw = 0
  /\ (Len(data) \div 4) \div sw = sh

(***************************************************************************)
(* The state of one call of draw_mandel or draw_julia.                     *)
(***************************************************************************)
VARIABLES
  pc,                \* where the call is: idle, pixel, iterate, colour, image, put, returned
  result,            \* none, Ok, Err, or panic
  f_type, canvas, axes_ranges, mouse_loc, max_iters, c_map, is_little_endian,
  colour_map,        \* the deserialized colour map
  image_data,        \* the byte vector under construction
  ix, iy,            \* the loop indices
  this_coord,        \* the plane point of pixel (ix, iy)
  mandel_point, start_val, iter_count,   \* escape_time_mj's locals
  ctx                \* the image data the canvas context has been handed

args == <<f_type, canvas, axes_ranges, mouse_loc, max_iters, c_map, is_little_endian>>
locals == <<this_coord, mandel_point, start_val, iter_count>>
vars == <<pc, result, args, colour_map, image_data, ix, iy, locals, ctx>>

Init ==
  /\ pc = "idle"
  /\ result = "none"
  /\ f_type = "Mandelbrot"
  /\ canvas = Dimensions(0, 0)
  /\ axes_ranges = AxesRanges(Range(Zero, Zero), Range(Zero, Zero))
  /\ mouse_loc = Origin
  /\ max_iters = 0
  /\ c_map = JsUndefined
  /\ is_little_endian = TRUE
  /\ colour_map = <<>>
  /\ image_data = <<>>
  /\ ix = 0
  /\ iy = 0
  /\ this_coord = Origin
  /\ mandel_point = Origin
  /\ start_val = Origin
  /\ iter_count = 0
  /\ ctx = <<>>

\* draw_fractal up to the first pixel: deserialize the colour map (unwrap),
\* build the scale closures (u32 subtraction), enter the loops.
\* overflow_checks: whether the build panics on integer overflow.
draw_fractal(cv, ar, ml, mi, cm, le, ft, overflow_checks) ==
  /\ pc = "idle"
  /\ f_type' = ft
  /\ canvas' = cv
  /\ axes_ranges' = ar
  /\ mouse_loc' = ml
  /\ max_iters' = mi
  /\ c_map' = cm
  /\ is_little_endian' = le
  /\ colour_map' = into_serde(cm).v
  /\ IF ~into_serde(cm).ok \/ (overflow_checks /\ (cv.width = 0 \/ cv.height = 0))
     THEN pc' = "returned" /\ result' = "panic"
     ELSE /\ pc' = IF cv.width = 0 \/ cv.height = 0 THEN "image" ELSE "pixel"
          /\ result' = "none"
  /\ UNCHANGED <<image_data, ix, iy, locals, ctx>>

draw_mandel ==
  \E width \in Extents, height \in Extents, xr \in XRanges, yr \in YRanges,
     mi \in 0..MaxIters, cm \in ColourMaps, le \in BOOLEAN, oc \in BOOLEAN :
    draw_fractal(Dimensions(width, height), AxesRanges(xr, yr), Origin, mi, cm, le,
                 "Mandelbrot", oc)

draw_julia ==
  \E width \in Extents, height \in Extents, xr \in XRanges, yr \in YRanges,
     seed \in JuliaSeeds, mi \in 0..MaxIters, cm \in ColourMaps, le \in BOOLEAN,
     oc \in BOOLEAN :
    draw_fractal(Dimensions(width, height), AxesRanges(xr, yr), seed, mi, cm, le,
                 "Julia", oc)

\* the plane point of pixel (i, j)
coord_of(i, j) ==
  Point(axis_coord(axes_ranges.x_range, canvas.width, i),
        axis_coord(axes_ranges.y_range, canvas.height, j))

\* a Mandelbrot pixel: mandel_iter up to the fast path's answer or the loop's entry
pixel_mandel ==
  /\ pc = "pixel"
  /\ f_type = "Mandelbrot"
  /\ this_coord' = coord_of(ix, iy)
  /\ IF mandel_early_bailout(this_coord')
     THEN /\ iter_count' = early_bailout_count(max_iters)
          /\ pc' = "colour"
          /\ UNCHANGED <<mandel_point, start_val>>
     ELSE /\ mandel_point' = this_coord'
          /\ start_val' = Origin
          /\ iter_count' = 0
          /\ pc' = "iterate"
  /\ UNCHANGED <<result, args, colour_map, image_data, ix, iy, ctx>>

\* pixel_julia with escape_time_mj's first two arguments exchanged
pixel_julia_swapped ==
  /\ pc = "pixel"
  /\ f_type = "Julia"
  /\ this_coord' = coord_of(ix, iy)
  /\ mandel_point' = this_coord'
  /\ start_val' = mouse_loc
  /\ iter_count' = 0
  /\ pc' = "iterate"
  /\ UNCHANGED <<result, args, colour_map, image_data, ix, iy, ctx>>

\* a Julia pixel: escape_time_mj(&mouse_loc, this_coord, &max_iters) up to the loop's entry
pixel_julia ==
  /\ pc = "pixel"
  /\ f_type = "Julia"
  /\ this_coord' = coord_of(ix, iy)
  /\ mandel_point' = mouse_loc
  /\ start_val' = this_coord'
  /\ iter_count' = 0
  /\ pc' = "iterate"
  /\ UNCHANGED <<result, args, colour_map, image_data, ix, iy, ctx>>

\* one pass through escape_time_mj's loop body
escape_iterate ==
  /\ pc = "iterate"
  /\ escape_continues(start_val, iter_count, max_iters)
  /\ start_val' = escape_next(mandel_point, start_val)
  /\ iter_count' = iter_count + 1
  /\ UNCHANGED <<pc, result, args, colour_map, image_data, ix, iy, this_coord, mandel_point, ctx>>

\* the loop's exit: escape_time_mj returns iter_count
escape_return ==
  /\ pc = "iterate"
  /\ ~escape_continues(start_val, iter_count, max_iters)
  /\ pc' = "colour"
  /\ UNCHANGED <<result, args, colour_map, image_data, ix, iy, locals, ctx>>

\* index the colour map, push the pixel's bytes, step the loops
colour_pixel ==
  /\ pc = "colour"
  /\ IF iter_count >= Len(colour_map)
     THEN /\ pc' = "returned"
          /\ result' = "panic"
          /\ UNCHANGED <<image_data, ix, iy>>
     ELSE LET p == pushed(colour_map[iter_count + 1], push_order(is_little_endian))
              n == loop_next(ix, iy, canvas.width, canvas.height)
          IN  /\ image_data' = image_data \o p.bytes
              /\ IF ~p.ok
                 THEN pc' = "returned" /\ result' = "panic" /\ UNCHANGED <<ix, iy>>
                 ELSE /\ ix' = n.ix
                      /\ iy' = n.iy
                      /\ pc' = IF n.done THEN "image" ELSE "pixel"
                      /\ UNCHANGED result
  /\ UNCHANGED <<args, colour_map, locals, ctx>>

\* ImageData::new_with_u8_clamped_array_and_sh(...)?
new_image_data ==
  /\ pc = "image"
  /\ IF image_data_ok(image_data, canvas.width, canvas.height)
     THEN pc' = "put" /\ UNCHANGED result
     ELSE pc' = "returned" /\ result' = "Err"
  /\ UNCHANGED <<args, colour_map, image_data, ix, iy, locals, ctx>>

\* put_image_data called at the end of every row as well as after the loops
put_image_data_per_row ==
  /\ \/ pc = "put"
     \/ pc = "pixel" /\ ix = 0 /\ iy > 0 /\ Len(ctx) < iy
  /\ ctx' = Append(ctx, [data |-> image_data, width |-> canvas.width, height |-> canvas.height])
  /\ pc' = IF pc = "put" THEN "returned" ELSE pc
  /\ result' = IF pc = "put" THEN "Ok" ELSE result
  /\ UNCHANGED <<args, colour_map, image_data, ix, iy, locals>>

\* ctx.put_image_data(&image_data, 0.0, 0.0)
put_image_data ==
  /\ pc = "put"
  /\ ctx' = Append(ctx, [data |-> image_data, width |-> canvas.width, height |-> canvas.height])
  /\ pc' = "returned"
  /\ result' = "Ok"
  /\ UNCHANGED <<args, colour_map, image_data, ix, iy, locals>>

Next ==
  \/ draw_mandel
  \/ draw_julia
  \/ pixel_mandel
  \/ pixel_julia
  \/ escape_iterate
  \/ escape_return
  \/ colour_pixel
  \/ new_image_data
  \/ put_image_data

Spec == Init /\ [][Next]_vars

(***************************************************************************)
(* Properties.                                                             *)
(***************************************************************************)
InLoops == pc \in {"pixel", "iterate", "colour"}

ValidCanvas == canvas.width >= 2 /\ canvas.height >= 2

\* C1: for width >= 2 and height >= 2, pixel (ix, iy) is written at offset
\* (iy*width + ix)*4 of the buffer: every pixel is appended as one group of 4
\* bytes to a buffer holding exactly the groups of the pixels before it in
\* row-major order, nothing else changes the buffer, and a completed render's
\* buffer is exactly width*height*4 bytes long.
C1_RowMajorBuffer ==
  /\ [](ValidCanvas =>
          /\ InLoops => /\ ix < canvas.width
                        /\ iy < canvas.height
                        /\ Len(image_data) = (iy * canvas.width + ix) * 4
          /\ (pc = "put" \/ result = "Ok") =>
               Len(image_data) = canvas.width * canvas.height * 4)
  /\ [][/\ (pc = "colour" /\ pc' \in {"pixel", "image"}) =>
             /\ Len(image_data') = Len(image_data) + 4
             /\ SubSeq(image_data', 1, Len(image_data)) = image_data
        /\ (pc \notin {"colour", "idle"}) => image_data' = image_data]_vars

C1_Witness ==
  result = "Ok" /\ canvas.width = 3 /\ canvas.height = 2 /\ Len(image_data) = 24

\* C2: the iteration count that indexes the palette lies in 0..max_iters, in
\* both modes, and inside the escape-time loop the counter goes up by exactly 1
\* per pass and never exceeds max_iters.
C2_IterationCountBounded ==
  /\ [](iter_count \in 0..max_iters)
  /\ [][(pc = "iterate" /\ pc' = "iterate") =>
          iter_count' = iter_count + 1 /\ iter_count' <= max_iters]_vars

C2_Witness == pc = "iterate" /\ max_iters >= 2 /\ iter_count = max_iters

\* C3 (as claimed): a render called with a palette shorter than max_iters + 1
\* ends in an error, also when no pixel's count reaches the palette's length.
\* Stated for valid canvases, where the call has no other reason to fail.
C3_ShortPaletteRejected ==
  (/\ pc = "returned"
   /\ ValidCanvas
   /\ c_map.t = "array"
   /\ Len(colour_map) < max_iters + 1) => result \in {"panic", "Err"}

\* the last pixel pushed, once a pixel has been pushed whole
PixelWritten == pc \in {"pixel", "image", "put"} /\ image_data # <<>>
LastPixel == SubSeq(image_data, Len(image_data) - 3, Len(image_data))
LastColour == colour_map[iter_count + 1]

\* C4 (amended): the 4 bytes written for palette entry (R, G, B) are
\* [R mod 256, G mod 256, B mod 256, 0xFF] for little-endian and
\* [0xFF, B mod 256, G mod 256, R mod 256] for big-endian; a 4th channel is
\* ignored.
C4_PixelBytesTruncated ==
  PixelWritten =>
    LastPixel = IF is_little_endian
                THEN <<LastColour[1] % 256, LastColour[2] % 256, LastColour[3] % 256, 255>>
                ELSE <<255, LastColour[3] % 256, LastColour[2] % 256, LastColour[1] % 256>>

\* C4 (as claimed): the 4 bytes are [R, G, B, 0xFF], or [0xFF, B, G, R], with
\* R, G, B the palette entry's channels themselves.
C4_PixelBytesVerbatim ==
  PixelWritten =>
    LastPixel = IF is_little_endian
                THEN <<LastColour[1], LastColour[2], LastColour[3], 255>>
                ELSE <<255, LastColour[3], LastColour[2], LastColour[1]>>

C4_Witness ==
  /\ PixelWritten
  /\ ~is_little_endian
  /\ Len(LastColour) = 4
  /\ LastColour[1] > 255
  /\ LastPixel[4] = LastColour[1] % 256

\* C5: the display surface is handed pixel data at most once, only by a call
\* that has written all width*height pixels, and a call that fails (colour map
\* deserialization, colour lookup, image-data construction) hands it nothing.
C5_DeliveredOnceAndWhole ==
  /\ Len(ctx) <= 1
  /\ pc # "returned" => ctx = <<>>
  /\ result \in {"panic", "Err"} => ctx = <<>>
  /\ ctx # <<>> => /\ result = "Ok"
                   /\ ctx[1].data = image_data
                   /\ Len(ctx[1].data) = canvas.width * canvas.height * 4

C5_Witness == result = "panic" /\ image_data # <<>> /\ ctx = <<>>

\* C6 (as claimed): a call with width < 2 or height < 2 fails fast: no pixel
\* is computed from a division by zero, nothing is pushed, nothing is
\* delivered, and the call does not return Ok.
C6_DegenerateCanvasRejected ==
  (pc # "idle" /\ ~ValidCanvas) =>
    /\ this_coord.x.k # "nan"
    /\ this_coord.y.k # "nan"
    /\ image_data = <<>>
    /\ ctx = <<>>
    /\ result # "Ok"

\* The claim's inequalities at (x, y), in f64: the main cardioid's,
\* q*(q + x - 0.25) <= y^2/4 with q = (x - 0.25)^2 + y^2, or the period-2
\* bulb's, (x+1)^2 + y^2 <= 0.0625.
InCardioidOrBulb(x, y) ==
  LET quarter == F64Lit(0, 1, 4)
      xq == F64Sub(x, quarter)
      q  == F64Add(F64Mul(xq, xq), F64Mul(y, y))
      x1 == F64Add(x, F64FromU32(1))
  IN  \/ F64Le(F64Mul(q, F64Sub(F64Add(q, x), quarter)), F64Div(F64Mul(y, y), F64FromU32(4)))
      \/ F64Le(F64Add(F64Mul(x1, x1), F64Mul(y, y)), F64Lit(0, 1, 16))

AtTwoZero == pc = "colour" /\ f_type = "Mandelbrot" /\ this_coord = Point(F64FromU32(2), Zero)

\* C8 (amended): mandel_iter at (2, 0) returns 2 for every max_iters >= 2 and
\* 1 for max_iters = 1: |z_1|^2 = 4 does not exceed the bailout, so the point
\* escapes on iteration 2.
C8_TwoZeroEscapesAtTwo ==
  (AtTwoZero /\ max_iters >= 1) => iter_count = Min(2, max_iters)

\* C8 (as claimed): mandel_iter at (2, 0) returns 1 for every max_iters >= 1.
C8_TwoZeroEscapesAtOne ==
  (AtTwoZero /\ max_iters >= 1) => iter_count = 1

C8_Witness == AtTwoZero /\ max_iters >= 2 /\ iter_count = 2

\* the coordinate is computed: the pixel action has run for pixel (ix, iy)
CoordComputed == pc \in {"iterate", "colour"} /\ ValidCanvas

\* min + (max - min) * (i / (n - 1)), each operation in f64
MapperFormula(range, n, i) ==
  F64Add(range.min,
         F64Mul(F64Sub(range.max, range.min), F64Div(F64FromU32(i), F64FromU32(n - 1))))

\* max - min is a value of f64: the exact difference has at most 53
\* significant bits
DifferenceExact(range) ==
  LET a == range.max
      b == range.min
      e == Min(a.e, b.e)
      ma == BnShl(a.m, a.e - e)
      mb == BnShl(b.m, b.e - e)
      d == IF a.s # b.s THEN BnAdd(ma, mb)
           ELSE IF BnCmp(ma, mb) >= 0 THEN BnSub(ma, mb) ELSE BnSub(mb, ma)
  IN  d = <<>> \/ BnBitLen(d) - BnTz(d) <= Precision

AxisMapped(range, n, i, coord) ==
  /\ coord = MapperFormula(range, n, i)
  /\ i = 0 => coord = range.min
  /\ i = n - 1 => /\ coord = F64Add(range.min, F64Sub(range.max, range.min))
                  /\ DifferenceExact(range) => coord = range.max

\* C9 (amended): on each axis (x with width, y with height) index i maps to
\* min + (max - min) * (i / (n - 1)) evaluated in f64; index 0 maps to min
\* exactly; index n-1 maps to min + (max - min) as rounded by f64, which is
\* max when max - min is exactly representable.
C9_AxisMappingRounded ==
  CoordComputed =>
    /\ AxisMapped(axes_ranges.x_range, canvas.width, ix, this_coord.x)
    /\ AxisMapped(axes_ranges.y_range, canvas.height, iy, this_coord.y)

\* C9 (as claimed): index 0 maps to min and index n-1 maps to max, on each axis.
C9_AxisMappingExact ==
  CoordComputed =>
    /\ ix = 0 => this_coord.x = axes_ranges.x_range.min
    /\ ix = canvas.width - 1 => this_coord.x = axes_ranges.x_range.max
    /\ iy = 0 => this_coord.y = axes_ranges.y_range.min
    /\ iy = canvas.height - 1 => this_coord.y = axes_ranges.y_range.max

C9_Witness ==
  /\ CoordComputed
  /\ ix = canvas.width - 1
  /\ iy = canvas.height - 1
  /\ canvas.width # canvas.height
  /\ ~DifferenceExact(axes_ranges.x_range)
  /\ this_coord.x # axes_ranges.x_range.max
  /\ this_coord.y = axes_ranges.y_range.max

\* z_k of the recurrence z_0 = z0, z_(k+1) = z_k^2 + c
RECURSIVE Orbit(_, _, _)
Orbit(c, z0, k) ==
  IF k = 0 THEN z0
  ELSE LET z == Orbit(c, z0, k - 1)
       IN  Point(F64Add(F64Sub(F64Mul(z.x, z.x), F64Mul(z.y, z.y)), c.x),
                 F64Add(F64Mul(F64Mul(F64FromU32(2), z.x), z.y), c.y))

\* the least k in 0..n with |z_k|^2 > 4, and n when there is none
LeastEscape(c, z0, n) ==
  LET escaped == {k \in 0..n :
                    LET z == Orbit(c, z0, k)
                    IN  F64Gt(F64Add(F64Mul(z.x, z.x), F64Mul(z.y, z.y)), F64FromU32(4))}
  IN  IF escaped = {} THEN n ELSE CHOOSE k \in escaped : \A j \in escaped : k <= j

====
